---- MODULE Spec2Model ----
(***************************************************************************)
(* PageRank engine of src/pagerank/pagerank.py: transition_model,          *)
(* sample_pagerank and iterate_pagerank.                                   *)
(*                                                                         *)
(* Pages are the numbers 1..N in the corpus dictionary's iteration order;  *)
(* the corpus is the function page |-> set of linked pages.  Python's      *)
(* real-valued arithmetic is modelled by exact rationals <<num, den>> in   *)
(* lowest terms (den > 0), an integer k being <<k, 1>>; floating-point     *)
(* rounding is not modelled.                                               *)
(***************************************************************************)
EXTENDS Integers, FiniteSets, Sequences, TLC

VARIABLES engine, corpus, damping_factor, n, pc,
          next_page, model, i,
          page_rank, new_rank, max_change, iteration, page_name

vars == <<engine, corpus, damping_factor, n, pc, next_page, model, i,
          page_rank, new_rank, max_change, iteration, page_name>>

(* ------------------------------ bounds --------------------------------- *)
MaxPages == 3
MaxSamples == 3
MaxSweeps == 12
LargeCorpusSize == 1000
RankGrid == 3

(* ------------------------- rational arithmetic ------------------------- *)
RECURSIVE GCD(_, _)
GCD(a, b) == IF b = 0 THEN a ELSE GCD(b, a % b)

Abs(x) == IF x < 0 THEN -x ELSE x

\* The arithmetic operations are functions on pairs of integers: applying
\* a function evaluates its arguments once, so nested expressions cost
\* what they cost in the program.
Rat == Int \X Int

reduce[x \in Rat] ==
    LET s == IF x[2] < 0 THEN -1 ELSE 1
        g == GCD(Abs(x[1]), Abs(x[2]))
    IN  <<(s * x[1]) \div g, (s * x[2]) \div g>>

\* the rational num/den in lowest terms
R(num, den) == reduce[<<num, den>>]

Num(x) == <<x, 1>>

radd[a \in Rat, b \in Rat] ==
    LET g == GCD(a[2], b[2])
        l == (a[2] \div g) * b[2]
    IN  R(a[1] * (l \div a[2]) + b[1] * (l \div b[2]), l)

RAdd(a, b) == radd[a, b]

RNeg(a) == <<-a[1], a[2]>>

RSub(a, b) == radd[a, RNeg(b)]

rmul[a \in Rat, b \in Rat] ==
    LET g1 == GCD(Abs(a[1]), b[2])
        g2 == GCD(Abs(b[1]), a[2])
    IN  R((a[1] \div g1) * (b[1] \div g2), (a[2] \div g2) * (b[2] \div g1))

RMul(a, b) == rmul[a, b]

rinv[b \in Rat] == IF b[1] < 0 THEN <<-b[2], -b[1]>> ELSE <<b[2], b[1]>>

\* a / b; the caller guards b # 0 (Python raises ZeroDivisionError)
RDiv(a, b) == rmul[a, rinv[b]]

rabs[a \in Rat] == <<Abs(a[1]), a[2]>>

RAbs(a) == rabs[a]

\* an/ad > bn/bd by integer parts and reciprocal remainders (no products)
RECURSIVE GtFrac(_, _, _, _)
GtFrac(an, ad, bn, bd) ==
    LET qa == an \div ad
        qb == bn \div bd
        ra == an % ad
        rb == bn % bd
    IN  IF qa # qb THEN qa > qb
        ELSE IF ra = 0 THEN FALSE
        ELSE IF rb = 0 THEN TRUE
        ELSE GtFrac(bd, rb, ad, ra)

rgt[a \in Rat, b \in Rat] == GtFrac(a[1], a[2], b[1], b[2])

RGt(a, b) == rgt[a, b]

\* sum of f over its keys in lo..hi, split in halves so that the depth of
\* the evaluation stays logarithmic (the order is immaterial for rationals)
RECURSIVE SumRange(_, _, _)
SumRange(f, lo, hi) ==
    IF lo > hi THEN Num(0)
    ELSE IF lo = hi THEN (IF lo \in DOMAIN f THEN RAdd(Num(0), f[lo]) ELSE Num(0))
    ELSE LET mid == (lo + hi) \div 2
         IN  RAdd(SumRange(f, lo, mid), SumRange(f, mid + 1, hi))

\* the largest key of f (0 for the empty dictionary)
LastKey(f) ==
    LET k == Cardinality(DOMAIN f)
    IN  IF DOMAIN f = 1..k THEN k
        ELSE CHOOSE x \in DOMAIN f : \A y \in DOMAIN f : y <= x

\* sum(f.values())
Sum(f) == SumRange(f, 1, LastKey(f))

(* ----------------------------- constants ------------------------------- *)
DAMPING == <<17, 20>>
Epsilon == <<1, 1000>>
None == <<>>

(* ---------------------------- the corpus ------------------------------- *)
num_pages(c) == Cardinality(DOMAIN c)

\* the graphs crawl() can build over N pages: links stay inside the corpus
\* and no page links to itself
GraphsOfSize(N) ==
    {c \in [1..N -> SUBSET (1..N)] : \A p \in 1..N : p \notin c[p]}

Corpora == UNION {GraphsOfSize(N) : N \in 1..MaxPages}

\* a large corpus: every page links to page 1, page 1 links to page 2
StarCorpus(N) == [p \in 1..N |-> IF p = 1 THEN {2} ELSE {1}]

SampleDampings == {<<1, 2>>, DAMPING}
IterDampings == {<<1, 4>>, <<1, 2>>}
ValidDamping(d) == RGt(d, Num(0)) /\ RGt(Num(1), d)

(* -------------------------- transition_model --------------------------- *)
\* a link probability spread over the corpus instead of the page's links
link_prob_over_corpus(d, num_links, N) == RDiv(d, Num(N))

link_prob(d, num_links, N) == RDiv(d, Num(num_links))

transition_model(c, page, d) ==
    LET N == num_pages(c)
        num_links == Cardinality(c[page])
    IN  IF num_links = 0
        THEN [q \in DOMAIN c |-> RDiv(Num(1), Num(N))]
        ELSE LET random_prob == RDiv(RSub(Num(1), d), Num(N))
             IN  [q \in DOMAIN c |->
                    IF q \in c[page]
                    THEN RAdd(RAdd(Num(0), random_prob), link_prob(d, num_links, N))
                    ELSE RAdd(Num(0), random_prob)]

(* --------------------------- sample_pagerank --------------------------- *)
\* an empty corpus answered with an empty result instead of an error
SampleStartPc_returns(c) == IF num_pages(c) = 0 THEN "done" ELSE "loop"

\* random.choice(list(corpus)) raises IndexError on an empty corpus
SampleStartPc(c) == IF num_pages(c) = 0 THEN "failed" ELSE "loop"

SampleStart ==
    /\ pc = "start" /\ engine = "sample"
    /\ pc' = SampleStartPc(corpus)
    /\ page_rank' = <<>>
    /\ IF num_pages(corpus) = 0
       THEN next_page' = next_page
       ELSE next_page' \in DOMAIN corpus
    /\ UNCHANGED <<engine, corpus, damping_factor, n, model, i,
                   new_rank, max_change, iteration, page_name>>

\* line 100: the transition model of the current page
SampleModel ==
    /\ pc = "loop" /\ engine = "sample"
    /\ i < n - 1
    /\ model' = transition_model(corpus, next_page, damping_factor)
    /\ pc' = "draw"
    /\ UNCHANGED <<engine, corpus, damping_factor, n, next_page, i,
                   page_rank, new_rank, max_change, iteration, page_name>>

\* page_rank[p] += 1, or insert 1
Visit(pr, p) ==
    IF p \in DOMAIN pr THEN [pr EXCEPT ![p] = RAdd(@, Num(1))]
    ELSE pr @@ (p :> Num(1))

\* lines 101-107: weighted draw (a page of weight 0 is never drawn) and count
SampleDraw ==
    /\ pc = "draw" /\ engine = "sample"
    /\ \E p \in DOMAIN model :
          /\ RGt(model[p], Num(0))
          /\ next_page' = p
          /\ page_rank' = Visit(page_rank, p)
    /\ i' = i + 1
    /\ pc' = "loop"
    /\ UNCHANGED <<engine, corpus, damping_factor, n, model,
                   new_rank, max_change, iteration, page_name>>

Normalized(pr, cnt) == [page \in DOMAIN pr |-> RDiv(pr[page], Num(cnt))]

\* lines 110-113: divide the counters by n and return
SampleNormalize ==
    /\ pc = "loop" /\ engine = "sample"
    /\ ~(i < n - 1)
    /\ page_rank' = Normalized(page_rank, n)
    /\ pc' = "done"
    /\ UNCHANGED <<engine, corpus, damping_factor, n, next_page, model, i,
                   new_rank, max_change, iteration, page_name>>

(* -------------------------- iterate_pagerank --------------------------- *)
random_prob(c, d) == RDiv(RSub(Num(1), d), Num(num_pages(c)))

init_prob(c) == RDiv(Num(1), Num(num_pages(c)))

\* lines 125-133; (1 - d) / 0 raises ZeroDivisionError on an empty corpus
IterStartPc(c) == IF num_pages(c) = 0 THEN "failed" ELSE "while"

IterInit ==
    /\ pc = "start" /\ engine = "iterate"
    /\ pc' = IterStartPc(corpus)
    /\ IF num_pages(corpus) = 0
       THEN UNCHANGED <<page_rank, new_rank, max_change>>
       ELSE /\ page_rank' = [p \in DOMAIN corpus |-> init_prob(corpus)]
            /\ new_rank' = [p \in DOMAIN corpus |-> None]
            /\ max_change' = init_prob(corpus)
    /\ iteration' = 0
    /\ UNCHANGED <<engine, corpus, damping_factor, n, next_page, model, i,
                   page_name>>

\* line 136, loop entered: lines 137-138
SweepBegin ==
    /\ pc = "while" /\ engine = "iterate"
    /\ RGt(max_change, Epsilon)
    /\ iteration < MaxSweeps
    /\ iteration' = iteration + 1
    /\ max_change' = Num(0)
    /\ page_name' = 1
    /\ pc' = "rank"
    /\ UNCHANGED <<engine, corpus, damping_factor, n, next_page, model, i,
                   page_rank, new_rank>>

\* line 136, loop left: line 166
IterReturn ==
    /\ pc = "while" /\ engine = "iterate"
    /\ ~RGt(max_change, Epsilon)
    /\ pc' = "done"
    /\ UNCHANGED <<engine, corpus, damping_factor, n, next_page, model, i,
                   page_rank, new_rank, max_change, iteration, page_name>>

\* pages without links ignored instead of spread over the corpus
RECURSIVE choice_prob_links_only(_, _, _, _)
choice_prob_links_only(c, ranks, page, q) ==
    IF q = 0 THEN Num(0)
    ELSE LET acc == choice_prob_links_only(c, ranks, page, q - 1)
         IN  IF Cardinality(c[q]) # 0 /\ page \in c[q]
             THEN RAdd(acc, RDiv(ranks[q], Num(Cardinality(c[q]))))
             ELSE acc

\* lines 141-148: the inner loop over other_page, pages 1..q
RECURSIVE choice_prob(_, _, _, _)
choice_prob(c, ranks, page, q) ==
    IF q = 0 THEN Num(0)
    ELSE LET acc == choice_prob(c, ranks, page, q - 1)
         IN  IF Cardinality(c[q]) = 0
             THEN RAdd(acc, RMul(ranks[q], init_prob(c)))
             ELSE IF page \in c[q]
             THEN RAdd(acc, RDiv(ranks[q], Num(Cardinality(c[q]))))
             ELSE acc

\* the random-jump term left out
rank_without_jump(c, ranks, page, d) ==
    RMul(d, choice_prob(c, ranks, page, num_pages(c)))

\* lines 141-150
rank(c, ranks, page, d) ==
    RAdd(random_prob(c, d), RMul(d, choice_prob(c, ranks, page, num_pages(c))))

\* the rank written into page_rank as well, inside the sweep
ComputeRankInPlace ==
    /\ pc = "rank" /\ engine = "iterate"
    /\ new_rank' = [new_rank EXCEPT
                      ![page_name] = rank(corpus, page_rank, page_name, damping_factor)]
    /\ page_rank' = [page_rank EXCEPT
                      ![page_name] = rank(corpus, page_rank, page_name, damping_factor)]
    /\ IF page_name < num_pages(corpus)
       THEN page_name' = page_name + 1 /\ pc' = pc
       ELSE page_name' = page_name /\ pc' = "normalize"
    /\ UNCHANGED <<engine, corpus, damping_factor, n, next_page, model, i,
                   max_change, iteration>>

\* one pass of the loop of line 140
ComputeRank ==
    /\ pc = "rank" /\ engine = "iterate"
    /\ new_rank' = [new_rank EXCEPT
                      ![page_name] = rank(corpus, page_rank, page_name, damping_factor)]
    /\ IF page_name < num_pages(corpus)
       THEN page_name' = page_name + 1 /\ pc' = pc
       ELSE page_name' = page_name /\ pc' = "normalize"
    /\ UNCHANGED <<engine, corpus, damping_factor, n, next_page, model, i,
                   page_rank, max_change, iteration>>

\* lines 154-155
Normalize ==
    /\ pc = "normalize" /\ engine = "iterate"
    /\ LET norm_factor == Sum(new_rank)
       IN  new_rank' = [page \in DOMAIN new_rank |-> RDiv(new_rank[page], norm_factor)]
    /\ pc' = "change"
    /\ UNCHANGED <<engine, corpus, damping_factor, n, next_page, model, i,
                   page_rank, max_change, iteration, page_name>>

\* lines 158-161 over pages 1..q, starting from the running maximum mc
RECURSIVE max_change_of(_, _, _, _)
max_change_of(old, new, mc, q) ==
    IF q = 0 THEN mc
    ELSE LET m == max_change_of(old, new, mc, q - 1)
             change == RAbs(RSub(old[q], new[q]))
         IN  IF RGt(change, m) THEN change ELSE m

MaxChange ==
    /\ pc = "change" /\ engine = "iterate"
    /\ max_change' = max_change_of(page_rank, new_rank, max_change, num_pages(corpus))
    /\ pc' = "replace"
    /\ UNCHANGED <<engine, corpus, damping_factor, n, next_page, model, i,
                   page_rank, new_rank, iteration, page_name>>

\* the old ranks kept instead of replaced
copy_keeps_old(old, new) == old

\* line 164: page_rank = new_rank.copy()
copy(old, new) == new

Replace ==
    /\ pc = "replace" /\ engine = "iterate"
    /\ page_rank' = copy(page_rank, new_rank)
    /\ pc' = "while"
    /\ UNCHANGED <<engine, corpus, damping_factor, n, next_page, model, i,
                   new_rank, max_change, iteration, page_name>>

(* --------------------------- specifications ---------------------------- *)
Unset ==
    /\ pc = "start"
    /\ next_page = 0 /\ model = <<>> /\ i = 0
    /\ page_rank = <<>> /\ new_rank = <<>> /\ max_change = Num(0)
    /\ iteration = 0 /\ page_name = 0

\* calls with a valid configuration on a graph satisfying the invariants
Init ==
    /\ Unset
    /\ \/ /\ engine = "sample"
          /\ corpus \in Corpora
          /\ damping_factor \in SampleDampings
          /\ n \in 1..MaxSamples
       \/ /\ engine = "iterate"
          /\ \/ corpus \in Corpora /\ damping_factor \in IterDampings
             \/ corpus = StarCorpus(LargeCorpusSize) /\ damping_factor \in SampleDampings
          /\ n = 0

Next ==
    \/ SampleStart
    \/ SampleModel
    \/ SampleDraw
    \/ SampleNormalize
    \/ IterInit
    \/ SweepBegin
    \/ IterReturn
    \/ ComputeRank
    \/ Normalize
    \/ MaxChange
    \/ Replace

Spec == Init /\ [][Next]_vars

\* the program runs to completion: it is single-threaded and never waits
LiveSpec == Init /\ [][Next]_vars /\ WF_vars(Next)

TypeOK ==
    /\ engine \in {"sample", "iterate"}
    /\ pc \in {"start", "loop", "draw", "while", "rank", "normalize",
               "change", "replace", "done", "failed"}

\* calls with any configuration: empty corpus, n <= 0, d on the boundary
InitAny ==
    /\ Unset
    /\ \/ /\ engine = "sample"
          /\ corpus \in Corpora \cup {<<>>}
          /\ damping_factor \in SampleDampings \cup {Num(0), Num(1)}
          /\ n \in -1..MaxSamples
       \/ /\ engine = "iterate"
          /\ corpus \in Corpora \cup {<<>>}
          /\ damping_factor \in IterDampings \cup {Num(0)}
          /\ n = 0

SpecAny == InitAny /\ [][Next]_vars

(* ------------------------------ claims --------------------------------- *)
Returned(e) == engine = e /\ pc = "done"

\* C1: sample_pagerank records exactly n transitions and the returned
\* values sum to 1.
SampleSumsToOne ==
    Returned("sample") => (i = n /\ Sum(page_rank) = Num(1))

\* C2: the distribution returned by sample_pagerank has an entry for every
\* page of the corpus.
SampleCoversCorpus ==
    Returned("sample") => DOMAIN page_rank = DOMAIN corpus

\* C3: transition_model gives 1/N to every page when the current page has
\* no links; otherwise (1-d)/N + d/L to a linked page and (1-d)/N to every
\* other page; its keys are the corpus pages and its values sum to 1.
TransitionModelDistribution ==
    pc = "draw" =>
        LET N == num_pages(corpus)
            L == Cardinality(corpus[next_page])
            dn == damping_factor[1]
            dd == damping_factor[2]
        IN  /\ DOMAIN model = DOMAIN corpus
            /\ \A p \in DOMAIN corpus :
                  model[p] = IF L = 0 THEN R(1, N)
                             ELSE IF p \in corpus[next_page]
                             THEN R((dd - dn) * L + dn * N, dd * N * L)
                             ELSE R(dd - dn, dd * N)
            /\ Sum(model) = Num(1)

TransitionModelWitness ==
    /\ pc = "draw"
    /\ num_pages(corpus) = 3
    /\ Cardinality(corpus[next_page]) = 1
    /\ damping_factor = DAMPING

\* C4: the distribution returned by iterate_pagerank has an entry for every
\* corpus page, every value is strictly positive, and the values sum to 1.
IterateReturnsDistribution ==
    Returned("iterate") =>
        /\ DOMAIN page_rank = DOMAIN corpus
        /\ \A p \in DOMAIN corpus : RGt(page_rank[p], Num(0))
        /\ Sum(page_rank) = Num(1)

IterateReturnsWitness ==
    /\ Returned("iterate")
    /\ iteration >= 2
    /\ \E p \in DOMAIN corpus : corpus[p] = {}
    /\ \E p \in DOMAIN corpus : \A q \in DOMAIN corpus : p \notin corpus[q]

\* C5: iterate_pagerank terminates: every call reaches the return.
IterateTerminates == (engine = "iterate") ~> (pc = "done")

IterateTerminatesWitness == Returned("iterate") /\ iteration >= 5

\* C6: an invalid configuration (n <= 0, or a damping factor outside (0,1))
\* never yields a returned distribution.
InvalidConfigurationFails ==
    pc = "done" =>
        /\ ValidDamping(damping_factor)
        /\ engine = "sample" => n >= 1

\* C7: on an empty corpus both engines fail before any sampling step or
\* sweep and return nothing.
EmptyCorpusFailsFast ==
    num_pages(corpus) = 0 =>
        /\ pc \in {"start", "failed"}
        /\ i = 0 /\ iteration = 0
        /\ model = <<>> /\ new_rank = <<>>

EmptyCorpusWitness ==
    /\ num_pages(corpus) = 0 /\ pc = "failed"
    /\ engine = "sample" /\ n = MaxSamples

\* C8: in a sweep every new rank is computed from the previous sweep's
\* vector; renormalization, maximum change and replacement follow in that
\* order once every page has its new rank; page_rank changes only in the
\* replacement.
SweepOrder ==
    [][engine = "iterate" =>
        /\ (page_rank' # page_rank) => (pc \in {"start", "replace"})
        /\ (pc = "rank" /\ pc' # "rank") =>
              (pc' = "normalize" /\ page_name = num_pages(corpus))
        /\ (pc' = "normalize") =>
              \A p \in DOMAIN corpus :
                 new_rank'[p] = rank(corpus, page_rank', p, damping_factor)
        /\ (pc = "normalize") => (pc' = "change" /\ max_change' = Num(0))
        /\ (pc = "change") => (pc' = "replace" /\ new_rank' = new_rank)
        /\ (pc = "replace") => (pc' = "while" /\ page_rank' = new_rank)
      ]_vars

SweepOrderWitness ==
    /\ engine = "iterate" /\ pc = "replace" /\ iteration >= 2
    /\ page_rank # new_rank

\* C9: iterate_pagerank returns only after at least one full sweep, whose
\* maximum change is <= 0.001, for a corpus of any size.
ReturnsAfterSweep ==
    Returned("iterate") => (iteration >= 1 /\ ~RGt(max_change, Epsilon))

\* sum over q in 1..k of ranks[q] * transition_model(c, q, d)[p]
RECURSIVE Pushforward(_, _, _, _, _)
Pushforward(c, ranks, d, p, k) ==
    IF k = 0 THEN Num(0)
    ELSE RAdd(Pushforward(c, ranks, d, p, k - 1),
              RMul(ranks[k], transition_model(c, k, d)[p]))

\* the rank vectors over the pages of c with entries k/RankGrid that sum to 1
RECURSIVE Total(_, _)
Total(f, k) == IF k = 0 THEN 0 ELSE Total(f, k - 1) + f[k]

TestRanks(c) ==
    {[p \in DOMAIN c |-> R(f[p], RankGrid)] :
        f \in {g \in [DOMAIN c -> 0..RankGrid] : Total(g, num_pages(c)) = RankGrid}}

\* C10: before normalization the new rank of p is the sum over q of
\* rank(q) * transition_model(q)[p], and the new ranks sum to 1: for the
\* previous vector of every sweep, and for every previous vector with
\* entries k/RankGrid that sums to 1.
SweepMatchesTransitionModel ==
    (engine = "iterate" /\ pc = "normalize") =>
        /\ \A p \in DOMAIN corpus :
              new_rank[p] = Pushforward(corpus, page_rank, damping_factor, p,
                                        num_pages(corpus))
        /\ Sum(new_rank) = Num(1)
        /\ iteration = 1 =>
              \A r \in TestRanks(corpus) :
                 LET swept == [p \in DOMAIN corpus |->
                                 rank(corpus, r, p, damping_factor)]
                 IN  /\ \A p \in DOMAIN corpus :
                           swept[p] = Pushforward(corpus, r, damping_factor, p,
                                                  num_pages(corpus))
                     /\ Sum(swept) = Num(1)

SweepMatchesWitness ==
    /\ engine = "iterate" /\ pc = "normalize" /\ iteration >= 2
    /\ \E p \in DOMAIN corpus : corpus[p] = {}
    /\ \E p \in DOMAIN corpus : corpus[p] # {}
    /\ \E p, q \in DOMAIN corpus : page_rank[p] # page_rank[q]

====
